---- MODULE Spec2Model ----
(***************************************************************************)
(* A model of mesonbuild/compilers/c3.py: the C3 compiler backend.         *)
(*                                                                         *)
(*   - the optimization flag table and get_optimization_args;             *)
(*   - C3Compiler.__init__ with its Darwin-only SDK discovery;             *)
(*   - C3Compiler.sanity_check, one step per statement that can block or   *)
(*     raise (open, Popen, wait, subprocess.call);                         *)
(*   - compute_parameters_with_absolute_paths, one step per loop           *)
(*     iteration, on a heap of list objects so that aliasing is visible.   *)
(*                                                                         *)
(* Strings are TLA+ strings; os.path is posixpath.                         *)
(***************************************************************************)
EXTENDS Integers, Sequences, FiniteSets, TLC

VARIABLES
    \* ---- backend object and its sanity check
    pc,            \* position of the orchestrator's thread
    exelist,       \* self.exelist
    is_cross,      \* self.is_cross
    is_darwin,     \* self.info.is_darwin()
    sdk_path,      \* self.sdk_path ("unset" until assigned)
    xcrunCalls,    \* number of times the SDK discovery tool was invoked
    xcrunOutcome,  \* how that invocation ended, or "none"
    error,         \* the exception that left the current call, or NoError
    work_dir,      \* sanity_check's work_dir argument
    external_args, \* environment.coredata.get_external_args(...)
    external_link_args, \* environment.coredata.get_external_link_args(...)
    extra_flags,   \* sanity_check's local extra_flags
    sourceFile,    \* path of the probe source on disk, or "none"
    compileCalls,  \* number of subprocess.Popen calls made by sanity_check
    compileArgv,   \* argv handed to Popen
    compileCwd,    \* cwd handed to Popen
    compileExit,   \* <<pc.returncode>>, or NoExit
    execCalls,     \* number of subprocess.call calls made by sanity_check
    execArgv,      \* argv handed to subprocess.call
    execExit,      \* <<value returned by subprocess.call>>, or NoExit
    optLevel,      \* argument of the last get_optimization_args call
    optResult,     \* its outcome
    \* ---- compute_parameters_with_absolute_paths
    ppc,           \* position inside / between calls
    heap,          \* list objects: reference -> contents
    argRef,        \* the reference bound to parameter_list
    retRef,        \* the reference returned by the last call
    idx,           \* loop index (1-based)
    build_dir,     \* build_dir argument
    callNo,        \* how many calls have returned
    input,         \* contents of the caller's list before the first call
    firstResult    \* contents of the result of the first call

backendVars == <<exelist, is_cross, is_darwin, sdk_path, xcrunCalls, xcrunOutcome>>
probeVars == <<work_dir, external_args, external_link_args, extra_flags, sourceFile>>
compileVars == <<compileCalls, compileArgv, compileCwd, compileExit>>
execVars == <<execCalls, execArgv, execExit>>
runVars == <<probeVars, compileVars, execVars>>
optVars == <<optLevel, optResult>>
pathVars == <<ppc, heap, argRef, retRef, idx, build_dir, callNo, input, firstResult>>
vars == <<pc, error, backendVars, runVars, optVars, pathVars>>

(***************************************************************************)
(* Bounds and input pools                                                  *)
(***************************************************************************)
MaxExit == 2
MaxFlags == 2
MaxPathLen == 3

ExitCodes == (-MaxExit)..MaxExit          \* negative: killed by a signal
ExeLists == {<<"c3c">>, <<"/opt/c3/c3c">>, <<"ccache", "c3c">>}
ExternalArgs == {<<>>, <<"-g">>, <<"--threads", "4">>}
ExternalLinkArgs == {<<>>, <<"-lm">>, <<"-z", "now">>}
WorkDirs == {"/tmp/w", "scratch/w", "/tmp/w/"}

NoError == [exc |-> "none", msg |-> ""]
\* a return code is a one-element sequence; no return code yet is the empty one
NoExit == <<>>

(***************************************************************************)
(* posixpath, as used through os.path                                      *)
(***************************************************************************)
StartsWith(s, p) == Len(s) >= Len(p) /\ SubSeq(s, 1, Len(p)) = p

EndsWith(s, p) == Len(s) >= Len(p) /\ SubSeq(s, Len(s) - Len(p) + 1, Len(s)) = p

\* s[:n]
Take(s, n) == SubSeq(s, 1, IF Len(s) < n THEN Len(s) ELSE n)

\* s[n:]
Drop(s, n) == IF Len(s) <= n THEN "" ELSE SubSeq(s, n + 1, Len(s))

\* variant: the second component is appended even when it is absolute
Join_Concat(a, b) ==
    IF a = "" \/ EndsWith(a, "/") THEN a \o b
    ELSE a \o "/" \o b

\* posixpath.join(a, b)
Join(a, b) ==
    IF StartsWith(b, "/") THEN b
    ELSE IF a = "" \/ EndsWith(a, "/") THEN a \o b
    ELSE a \o "/" \o b

RECURSIVE SplitFrom(_, _, _, _)
SplitFrom(s, i, cur, acc) ==
    IF i > Len(s) THEN Append(acc, cur)
    ELSE IF SubSeq(s, i, i) = "/" THEN SplitFrom(s, i + 1, "", Append(acc, cur))
    ELSE SplitFrom(s, i + 1, cur \o SubSeq(s, i, i), acc)

\* path.split on the separator
Split(s) == SplitFrom(s, 1, "", <<>>)

RECURSIVE JoinWith(_, _)
\* sep.join(comps)
JoinWith(sep, comps) ==
    IF Len(comps) = 0 THEN ""
    ELSE IF Len(comps) = 1 THEN comps[1]
    ELSE comps[1] \o sep \o JoinWith(sep, Tail(comps))

\* number of leading slashes normpath keeps: 0, 1, or 2 (exactly two)
InitialSlashes(path) ==
    IF ~StartsWith(path, "/") THEN 0
    ELSE IF StartsWith(path, "//") /\ ~StartsWith(path, "///") THEN 2
    ELSE 1

RECURSIVE Collapse(_, _, _, _)
\* the component loop of normpath
Collapse(comps, i, new_comps, initial_slashes) ==
    IF i > Len(comps) THEN new_comps
    ELSE LET comp == comps[i] IN
         IF comp = "" \/ comp = "." THEN Collapse(comps, i + 1, new_comps, initial_slashes)
         ELSE IF \/ comp # ".."
                 \/ (initial_slashes = 0 /\ Len(new_comps) = 0)
                 \/ (Len(new_comps) > 0 /\ new_comps[Len(new_comps)] = "..")
              THEN Collapse(comps, i + 1, Append(new_comps, comp), initial_slashes)
         ELSE IF Len(new_comps) > 0
              THEN Collapse(comps, i + 1, SubSeq(new_comps, 1, Len(new_comps) - 1),
                            initial_slashes)
         ELSE Collapse(comps, i + 1, new_comps, initial_slashes)

\* posixpath.normpath(path)
NormPath(path) ==
    IF path = "" THEN "."
    ELSE LET n == InitialSlashes(path)
             body == JoinWith("/", Collapse(Split(path), 1, <<>>, n))
             out == (IF n = 2 THEN "//" ELSE IF n = 1 THEN "/" ELSE "") \o body
         IN IF out = "" THEN "." ELSE out

(***************************************************************************)
(* Flag table                                                              *)
(***************************************************************************)
c3_optimization_args ==
    ("plain" :> <<>>) @@
    ("0" :> <<"-O0">>) @@
    ("g" :> <<"-Og">>) @@
    ("1" :> <<"-O1">>) @@
    ("2" :> <<"-O2">>) @@
    ("3" :> <<"-O3">>) @@
    ("s" :> <<"-Os">>) @@
    ("4" :> <<"-O4">>) @@
    ("5" :> <<"-O5">>) @@
    ("z" :> <<"-Oz">>)

\* variant: a lookup with a default, as dict.get(level, []) would do
get_optimization_args_Default(optimization_level) ==
    IF optimization_level \in DOMAIN c3_optimization_args
    THEN [kind |-> "return", value |-> c3_optimization_args[optimization_level]]
    ELSE [kind |-> "return", value |-> <<>>]

\* a dict subscript: the value, or KeyError
get_optimization_args(optimization_level) ==
    IF optimization_level \in DOMAIN c3_optimization_args
    THEN [kind |-> "return", value |-> c3_optimization_args[optimization_level]]
    ELSE [kind |-> "raise", value |-> "KeyError"]

get_compile_only_args == <<"compile-only">>

(***************************************************************************)
(* C3Compiler.__init__                                                     *)
(***************************************************************************)
\* the messages of the two MesonExceptions (without the back quotes)
LicenseError ==
    [exc |-> "MesonException",
     msg |-> "Xcode license not accepted yet. Run sudo xcodebuild -license."]

NotInstalledError ==
    [exc |-> "MesonException",
     msg |-> "Could not detect Xcode. Please install it to compile Swift code."]

\* outcomes of subprocess.check_output of xcrun --show-sdk-path
XcrunOutcomes == {"output", "CalledProcessError", "FileNotFoundError"}

\* __init__ on a machine where info.is_darwin() is false: no discovery
ConstructPlain(exe, cross) ==
    /\ pc = "Unconstructed"
    /\ exelist' = exe
    /\ is_cross' = cross
    /\ is_darwin' = FALSE
    /\ pc' = "Init"
    /\ UNCHANGED <<sdk_path, xcrunCalls, xcrunOutcome, error>>

\* variant: a missing xcrun is logged and construction goes on without an SDK
ConstructDarwin_Swallow(exe, cross, outcome) ==
    /\ pc = "Unconstructed"
    /\ exelist' = exe
    /\ is_cross' = cross
    /\ is_darwin' = TRUE
    /\ xcrunCalls' = xcrunCalls + 1
    /\ xcrunOutcome' = outcome
    /\ CASE outcome = "output" ->
              /\ sdk_path' = "/sdk"
              /\ pc' = "Init"
              /\ UNCHANGED error
         [] outcome = "CalledProcessError" ->
              /\ error' = LicenseError
              /\ pc' = "ConstructFailed"
              /\ UNCHANGED sdk_path
         [] outcome = "FileNotFoundError" ->
              /\ pc' = "Init"
              /\ UNCHANGED <<sdk_path, error>>

\* __init__ on Darwin: one blocking run of xcrun, whose failure is fatal
ConstructDarwin(exe, cross, outcome) ==
    /\ pc = "Unconstructed"
    /\ exelist' = exe
    /\ is_cross' = cross
    /\ is_darwin' = TRUE
    /\ xcrunCalls' = xcrunCalls + 1
    /\ xcrunOutcome' = outcome
    /\ CASE outcome = "output" ->
              /\ sdk_path' = "/sdk"
              /\ pc' = "Init"
              /\ UNCHANGED error
         [] outcome = "CalledProcessError" ->
              /\ error' = LicenseError
              /\ pc' = "ConstructFailed"
              /\ UNCHANGED sdk_path
         [] outcome = "FileNotFoundError" ->
              /\ error' = NotInstalledError
              /\ pc' = "ConstructFailed"
              /\ UNCHANGED sdk_path

Construct ==
    /\ \E exe \in ExeLists, cross \in BOOLEAN :
          \/ ConstructPlain(exe, cross)
          \/ \E outcome \in XcrunOutcomes : ConstructDarwin(exe, cross, outcome)
    /\ UNCHANGED <<runVars, optVars, pathVars>>

(***************************************************************************)
(* get_optimization_args, called by the orchestrator between other calls   *)
(***************************************************************************)
OptLevelInputs == DOMAIN c3_optimization_args \cup {"9", "", "O2", "fast"}

Idle == pc \in {"Init", "Passed", "Failed"}

QueryOptimization ==
    /\ Idle
    /\ \E level \in OptLevelInputs :
          /\ optLevel' = level
          /\ optResult' = get_optimization_args(level)
    /\ UNCHANGED <<pc, error, backendVars, runVars, pathVars>>

(***************************************************************************)
(* C3Compiler.sanity_check                                                 *)
(***************************************************************************)
src == "c3ctest.c3"

source_name(dir) == Join(dir, src)

output_name(dir) == Join(Join(dir, "c3test"), "c3test")

\* variant: the link arguments are appended on both branches
ExtraFlags_Both(cross, ext, link) ==
    ext \o (IF cross THEN get_compile_only_args ELSE <<>>) \o link

\* lines 113-118: the flags between the executable and the fixed tail
ExtraFlags(cross, ext, link) ==
    ext \o (IF cross THEN get_compile_only_args ELSE link)

\* the messages are the format strings; %s stands for self.name_string()
CannotCompile ==
    [exc |-> "EnvironmentException", msg |-> "C3 compiler %s cannot compile programs."]

NotRunnable ==
    [exc |-> "EnvironmentException",
     msg |-> "Executables created by C3 compiler %s are not runnable."]

\* an OSError (FileNotFoundError, PermissionError, ...) raised by open(),
\* Popen() or call() and not caught by sanity_check
UncaughtOSError == [exc |-> "OSError", msg |-> ""]

\* lines 110-121: build the flags, write the probe source
WriteSource ==
    /\ pc = "Init"
    /\ \E dir \in WorkDirs, ea \in ExternalArgs, la \in ExternalLinkArgs, opened \in BOOLEAN :
          /\ work_dir' = dir
          /\ external_args' = ea
          /\ external_link_args' = la
          /\ extra_flags' = ExtraFlags(is_cross, ea, la)
          /\ IF opened
             THEN /\ sourceFile' = source_name(dir)
                  /\ pc' = "SourceWritten"
                  /\ UNCHANGED error
             ELSE /\ error' = UncaughtOSError
                  /\ pc' = "Failed"
                  /\ UNCHANGED sourceFile
    /\ UNCHANGED <<backendVars, compileVars, execVars, optVars, pathVars>>

\* line 122: Popen either starts the child or raises (no such executable)
StartCompile ==
    /\ pc = "SourceWritten"
    /\ compileCalls' = compileCalls + 1
    /\ compileArgv' = exelist \o extra_flags \o <<"compile", src, "-o", output_name(work_dir)>>
    /\ compileCwd' = work_dir
    /\ \E started \in BOOLEAN :
          IF started
          THEN /\ pc' = "Compiling"
               /\ UNCHANGED error
          ELSE /\ error' = UncaughtOSError
               /\ pc' = "Failed"
    /\ UNCHANGED <<backendVars, probeVars, compileExit, execVars, optVars, pathVars>>

\* variant: the return code is not looked at
CompileExit_IgnoreStatus ==
    /\ pc = "Compiling"
    /\ \E code \in ExitCodes : compileExit' = <<code>>
    /\ pc' = "Compiled"
    /\ UNCHANGED <<error, backendVars, probeVars, compileCalls, compileArgv, compileCwd,
                   execVars, optVars, pathVars>>

\* lines 123-125: wait returns once the child has exited
CompileExit ==
    /\ pc = "Compiling"
    /\ \E code \in ExitCodes :
          /\ compileExit' = <<code>>
          /\ IF code # 0
             THEN /\ error' = CannotCompile
                  /\ pc' = "Failed"
             ELSE /\ pc' = "Compiled"
                  /\ UNCHANGED error
    /\ UNCHANGED <<backendVars, probeVars, compileCalls, compileArgv, compileCwd,
                   execVars, optVars, pathVars>>

\* line 126: a cross backend does not run its binary
SkipExecute ==
    /\ pc = "Compiled"
    /\ is_cross
    /\ pc' = "Skipped"
    /\ UNCHANGED <<error, backendVars, runVars, optVars, pathVars>>

\* line 128: return
ReturnSkipped ==
    /\ pc = "Skipped"
    /\ pc' = "Passed"
    /\ UNCHANGED <<error, backendVars, runVars, optVars, pathVars>>

\* variant: the is_cross test of line 126 is missing
StartExecute_Unguarded ==
    /\ pc = "Compiled"
    /\ execCalls' = execCalls + 1
    /\ execArgv' = <<output_name(work_dir)>>
    /\ \E started \in BOOLEAN :
          IF started
          THEN /\ pc' = "Executing"
               /\ UNCHANGED error
          ELSE /\ error' = UncaughtOSError
               /\ pc' = "Failed"
    /\ UNCHANGED <<backendVars, probeVars, compileVars, execExit, optVars, pathVars>>

\* line 129: subprocess.call starts the binary or raises
StartExecute ==
    /\ pc = "Compiled"
    /\ ~is_cross
    /\ execCalls' = execCalls + 1
    /\ execArgv' = <<output_name(work_dir)>>
    /\ \E started \in BOOLEAN :
          IF started
          THEN /\ pc' = "Executing"
               /\ UNCHANGED error
          ELSE /\ error' = UncaughtOSError
               /\ pc' = "Failed"
    /\ UNCHANGED <<backendVars, probeVars, compileVars, execExit, optVars, pathVars>>

\* line 129: subprocess.call returns the binary's exit status
ExecuteExit ==
    /\ pc = "Executing"
    /\ \E code \in ExitCodes : execExit' = <<code>>
    /\ pc' = "Executed"
    /\ UNCHANGED <<error, backendVars, probeVars, compileVars, execCalls, execArgv,
                   optVars, pathVars>>

\* variant: only positive exit statuses count as failure
CheckExecuted_Lenient ==
    /\ pc = "Executed"
    /\ IF execExit[1] > 0
       THEN /\ error' = NotRunnable
            /\ pc' = "Failed"
       ELSE /\ pc' = "Passed"
            /\ UNCHANGED error
    /\ UNCHANGED <<backendVars, runVars, optVars, pathVars>>

\* lines 129-130: the comparison with 0
CheckExecuted ==
    /\ pc = "Executed"
    /\ IF execExit # <<0>>
       THEN /\ error' = NotRunnable
            /\ pc' = "Failed"
       ELSE /\ pc' = "Passed"
            /\ UNCHANGED error
    /\ UNCHANGED <<backendVars, runVars, optVars, pathVars>>

PathIdle ==
    /\ ppc = "off"
    /\ heap = <<>>
    /\ argRef = 0
    /\ retRef = 0
    /\ idx = 0
    /\ build_dir = ""
    /\ callNo = 0
    /\ input = <<>>
    /\ firstResult = <<>>

Init ==
    /\ pc = "Unconstructed"
    /\ exelist = <<>>
    /\ is_cross = FALSE
    /\ is_darwin = FALSE
    /\ sdk_path = "unset"
    /\ xcrunCalls = 0
    /\ xcrunOutcome = "none"
    /\ error = NoError
    /\ work_dir = ""
    /\ external_args = <<>>
    /\ external_link_args = <<>>
    /\ extra_flags = <<>>
    /\ sourceFile = "none"
    /\ compileCalls = 0
    /\ compileArgv = <<>>
    /\ compileCwd = ""
    /\ compileExit = NoExit
    /\ execCalls = 0
    /\ execArgv = <<>>
    /\ execExit = NoExit
    /\ optLevel = ""
    /\ optResult = [kind |-> "none", value |-> <<>>]
    /\ PathIdle

Next ==
    \/ Construct
    \/ QueryOptimization
    \/ WriteSource
    \/ StartCompile
    \/ CompileExit
    \/ SkipExecute
    \/ ReturnSkipped
    \/ StartExecute
    \/ ExecuteExit
    \/ CheckExecuted

Spec == Init /\ [][Next]_vars

\* a run in progress keeps going: the thread is not stopped between statements
\* and each child process exits, so that wait and call return
RunStep ==
    \/ StartCompile
    \/ CompileExit
    \/ SkipExecute
    \/ ReturnSkipped
    \/ StartExecute
    \/ ExecuteExit
    \/ CheckExecuted

FairSpec == Spec /\ WF_vars(RunStep)

(***************************************************************************)
(* C3Compiler.compute_parameters_with_absolute_paths                       *)
(*                                                                         *)
(* The caller owns one list object (reference CallerRef) and calls the     *)
(* method on it; it then calls the method once more on whatever the first  *)
(* call returned, with the same build_dir.                                 *)
(***************************************************************************)
CallerRef == 1

\* variant: the library-path prefix is forgotten
IsPathFlag_OnlyI(i) == Take(i, 2) = "-I"

\* line 104
IsPathFlag(i) == Take(i, 2) = "-I" \/ Take(i, 2) = "-L"

\* line 105, right-hand side
RewriteFlag(i, dir) == Take(i, 2) \o NormPath(Join(dir, Drop(i, 2)))

\* variant: the rewritten flag is bound to the loop variable, not stored
StoreItem_Dropped(h, ref, k, value) == h

\* line 105, the subscript assignment parameter_list[idx] = ...
StoreItem(h, ref, k, value) == [h EXCEPT ![ref][k] = value]

\* line 107: the object handed back
ReturnValue(ref) == ref

RECURSIVE Strs(_)
Strs(n) == IF n = 0 THEN {""}
           ELSE LET S == Strs(n - 1) IN S \cup {s \o c : s \in S, c \in {"/", ".", "a"}}

FlagPool == {"-Ilib", "-Wall", "-L../x", "-I/usr/include", "-I", "-la", "-", "",
             "-Ia//b/./c/", "-L/a/../b", "--libdir", "-isystem"}

RECURSIVE ListsUpTo(_)
ListsUpTo(n) == IF n = 0 THEN {<<>>}
                ELSE LET S == ListsUpTo(n - 1) IN S \cup {Append(l, f) : l \in S, f \in FlagPool}

FlagLists == ListsUpTo(MaxFlags)
                \cup {<<prefix \o path>> : prefix \in {"-I", "-L"}, path \in Strs(MaxPathLen)}

BuildDirs == {"/build", "build", "", ".", "..", "/b/../c", "//build", "/", "/build/"}

\* the for statement is entered
PathEnter ==
    /\ ppc = "ready"
    /\ argRef' = (IF callNo = 0 THEN CallerRef ELSE retRef)
    /\ idx' = 1
    /\ ppc' = "loop"
    /\ UNCHANGED <<heap, retRef, build_dir, callNo, input, firstResult>>

\* lines 103-105: one iteration
PathLoopStep ==
    /\ ppc = "loop"
    /\ idx <= Len(heap[argRef])
    /\ LET i == heap[argRef][idx] IN
          heap' = IF IsPathFlag(i)
                  THEN StoreItem(heap, argRef, idx, RewriteFlag(i, build_dir))
                  ELSE heap
    /\ idx' = idx + 1
    /\ UNCHANGED <<ppc, argRef, retRef, build_dir, callNo, input, firstResult>>

\* line 107
PathReturn ==
    /\ ppc = "loop"
    /\ idx > Len(heap[argRef])
    /\ retRef' = ReturnValue(argRef)
    /\ callNo' = callNo + 1
    /\ firstResult' = (IF callNo = 0 THEN heap[ReturnValue(argRef)] ELSE firstResult)
    /\ ppc' = (IF callNo = 0 THEN "ready" ELSE "done")
    /\ UNCHANGED <<heap, argRef, idx, build_dir, input>>

PathInit ==
    /\ pc = "Init"
    /\ exelist = <<"c3c">>
    /\ is_cross = FALSE
    /\ is_darwin = FALSE
    /\ sdk_path = "unset"
    /\ xcrunCalls = 0
    /\ xcrunOutcome = "none"
    /\ error = NoError
    /\ work_dir = ""
    /\ external_args = <<>>
    /\ external_link_args = <<>>
    /\ extra_flags = <<>>
    /\ sourceFile = "none"
    /\ compileCalls = 0
    /\ compileArgv = <<>>
    /\ compileCwd = ""
    /\ compileExit = NoExit
    /\ execCalls = 0
    /\ execArgv = <<>>
    /\ execExit = NoExit
    /\ optLevel = ""
    /\ optResult = [kind |-> "none", value |-> <<>>]
    /\ ppc = "ready"
    /\ \E flags \in FlagLists :
          /\ heap = <<flags>>
          /\ input = flags
    /\ build_dir \in BuildDirs
    /\ argRef = 0
    /\ retRef = 0
    /\ idx = 0
    /\ callNo = 0
    /\ firstResult = <<>>

PathNext ==
    \/ (PathEnter /\ UNCHANGED <<pc, error, backendVars, runVars, optVars>>)
    \/ (PathLoopStep /\ UNCHANGED <<pc, error, backendVars, runVars, optVars>>)
    \/ (PathReturn /\ UNCHANGED <<pc, error, backendVars, runVars, optVars>>)

PathSpec == PathInit /\ [][PathNext]_vars

(***************************************************************************)
(* Properties                                                              *)
(***************************************************************************)
Ended == pc \in {"Passed", "Failed"}

\* C1: whenever the compile step of a run has failed (Popen was called and the
\* child did not finish with exit status zero, which includes a child that
\* could not be started because the executable is invalid), the run ends Failed
\* with the cannot-compile error and makes no execute call.
C1_CompileFailureIsCannotCompile ==
    (Ended /\ compileCalls > 0 /\ compileExit # <<0>>)
        => (pc = "Failed" /\ error = CannotCompile /\ execCalls = 0)

\* C2: a cross backend never makes an execute call, and once its compile child
\* has exited with status zero the run ends Passed, without error.
C2_CrossSkipsExecution ==
    is_cross =>
        /\ execCalls = 0
        /\ execArgv = <<>>
        /\ pc \notin {"Executing", "Executed"}
        /\ (Ended /\ compileExit = <<0>>) => (pc = "Passed" /\ error = NoError)

C2_Witness == is_cross /\ pc = "Passed" /\ compileExit = <<0>> /\ compileCalls = 1

\* C3: for a native backend whose compile child exited zero, a finished run has
\* made exactly one execute call, of the output path alone; it Passed exactly
\* when that call returned zero, and any other returned status made it Failed
\* with the not-runnable error.
C3_NativeRunsBinaryOnce ==
    (~is_cross /\ compileExit = <<0>> /\ Ended) =>
        /\ execCalls = 1
        /\ execArgv = <<Join(Join(work_dir, "c3test"), "c3test")>>
        /\ (pc = "Passed") <=> (execExit = <<0>>)
        /\ (pc = "Passed") => error = NoError
        /\ (execExit \notin {<<0>>, NoExit}) => (pc = "Failed" /\ error = NotRunnable)

C3_Witness ==
    /\ ~is_cross
    /\ pc = "Failed"
    /\ compileExit = <<0>>
    /\ execCalls = 1
    /\ execExit = <<-1>>
    /\ error = NotRunnable

\* C4: the argv handed to the compile child is the executable list, the external
\* compile args, then the compile-only args (cross) or the external link args
\* (native), then "compile", the probe source file, "-o", the output path; its
\* working directory is the work directory.
C4_CompileCommand ==
    compileCalls > 0 =>
        /\ compileArgv =
              exelist \o external_args
                  \o (IF is_cross THEN <<"compile-only">> ELSE external_link_args)
                  \o <<"compile", "c3ctest.c3", "-o", Join(Join(work_dir, "c3test"), "c3test")>>
        /\ compileCwd = work_dir
        /\ sourceFile = Join(work_dir, "c3ctest.c3")
        /\ (work_dir = "/tmp/w") => compileArgv[Len(compileArgv)] = "/tmp/w/c3test/c3test"

C4_Witness ==
    /\ compileCalls = 1
    /\ is_cross
    /\ external_args = <<"--threads", "4">>
    /\ external_link_args = <<"-lm">>
    /\ exelist = <<"ccache", "c3c">>

C5_ClosedSet == {"plain", "0", "g", "1", "2", "3", "s", "4", "5", "z"}

\* C5: a level of the closed set yields its flag sequence (empty for plain,
\* "-O" followed by the level otherwise); any other level raises (KeyError)
\* and yields no sequence.
C5_OptimizationArgs ==
    optResult.kind # "none" =>
        /\ (optLevel \in C5_ClosedSet) =>
              /\ optResult.kind = "return"
              /\ optResult.value = (IF optLevel = "plain" THEN <<>> ELSE <<"-O" \o optLevel>>)
        /\ (optLevel \notin C5_ClosedSet) =>
              /\ optResult.kind = "raise"
              /\ optResult.value = "KeyError"
        /\ (optLevel = "2") => optResult.value = <<"-O2">>

C5_Witness == optLevel = "9" /\ optResult.kind = "raise"

\* C6 as stated: for every build directory, the second application returns
\* what the first one returned.
C6_IdempotentForAnyBuildDir ==
    callNo = 2 => heap[retRef] = firstResult

\* C6 amended: for every absolute build directory the second application
\* returns what the first one returned; and for any build directory a
\* path-bearing flag whose path is absolute and normalized is left as it is.
C6_IdempotentForAbsoluteBuildDir ==
    /\ (callNo = 2 /\ StartsWith(build_dir, "/")) => heap[retRef] = firstResult
    /\ callNo >= 1 =>
          \A k \in 1..Len(input) :
              LET path == SubSeq(input[k], 3, Len(input[k])) IN
              (/\ Len(input[k]) >= 2
               /\ SubSeq(input[k], 1, 2) \in {"-I", "-L"}
               /\ StartsWith(path, "/")
               /\ NormPath(path) = path) => firstResult[k] = input[k]

C6_Witness ==
    /\ callNo = 2
    /\ build_dir = "/build"
    /\ input = <<"-Ilib", "-L../x">>
    /\ firstResult = <<"-I/build/lib", "-L/x">>
    /\ heap[retRef] = firstResult

C7_Expected(flag, dir) ==
    IF Len(flag) >= 2 /\ SubSeq(flag, 1, 2) \in {"-I", "-L"}
    THEN SubSeq(flag, 1, 2) \o NormPath(Join(dir, SubSeq(flag, 3, Len(flag))))
    ELSE flag

\* C7: the result has the length of the input and its position k is the
\* rewrite of input position k alone: "-I"/"-L" flags become prefix +
\* normalize(join(buildDir, remainder)), every other flag is unchanged; while
\* the loop runs, positions not yet visited still hold the input.
C7_PositionwiseRewrite ==
    /\ (callNo = 0 /\ ppc = "loop") =>
          /\ Len(heap[argRef]) = Len(input)
          /\ \A k \in 1..Len(input) :
                heap[argRef][k] = (IF k < idx THEN C7_Expected(input[k], build_dir)
                                   ELSE input[k])
    /\ callNo >= 1 =>
          /\ Len(firstResult) = Len(input)
          /\ \A k \in 1..Len(input) : firstResult[k] = C7_Expected(input[k], build_dir)
          /\ (input = <<"-Ilib", "-Wall">> /\ build_dir = "/build")
                => firstResult = <<"-I/build/lib", "-Wall">>
          /\ (input = <<"-L/a/../b", "-Ia//b/./c/">> /\ build_dir = "build")
                => firstResult = <<"-L/b", "-Ibuild/a/b/c">>

C7_Witness ==
    /\ callNo = 1
    /\ input = <<"-Ilib", "-Wall">>
    /\ build_dir = "/build"
    /\ firstResult = <<"-I/build/lib", "-Wall">>

\* C8 as stated: after the call the caller's list holds what it held before,
\* and the result is another list object.
C8_InputNotMutated ==
    callNo >= 1 => (heap[CallerRef] = input /\ retRef # CallerRef)

\* C8 amended: the call rewrites the caller's list in place and returns that
\* same list object: no other list is created, the length is kept, entries
\* that are not path-bearing are never touched, and after the call the
\* caller's list holds the rewritten path-bearing flags.
C8_RewritesInPlace ==
    /\ DOMAIN heap = {CallerRef}
    /\ Len(heap[CallerRef]) = Len(input)
    /\ \A k \in 1..Len(input) :
          ~(Take(input[k], 2) \in {"-I", "-L"}) => heap[CallerRef][k] = input[k]
    /\ callNo >= 1 => retRef = CallerRef
    /\ (callNo = 1 /\ ppc = "ready") =>
          \A k \in 1..Len(input) :
              (Take(input[k], 2) \in {"-I", "-L"}) =>
                  heap[CallerRef][k] = Take(input[k], 2) \o NormPath(Join(build_dir, Drop(input[k], 2)))

C8_Witness ==
    /\ callNo = 1
    /\ ppc = "ready"
    /\ retRef = CallerRef
    /\ input = <<"-Wall", "-Ilib">>
    /\ heap[CallerRef] # input

C9_Rank ==
    [p \in {"Unconstructed", "ConstructFailed", "Init", "SourceWritten", "Compiling",
            "Compiled", "Executing", "Skipped", "Executed", "Passed", "Failed"} |->
        CASE p \in {"Unconstructed", "ConstructFailed"} -> 0
          [] p = "Init" -> 1
          [] p \in {"SourceWritten", "Compiling"} -> 2
          [] p \in {"Compiled", "Executing"} -> 3
          [] p \in {"Skipped", "Executed"} -> 4
          [] p \in {"Passed", "Failed"} -> 5]

C9_Inv ==
    /\ compileCalls <= 1
    /\ execCalls <= 1
    /\ compileCalls > 0 => sourceFile # "none"
    /\ execCalls > 0 => compileExit = <<0>>
    /\ pc \in {"Compiled", "Skipped", "Executing", "Executed", "Passed"}
          => (sourceFile # "none" /\ compileCalls = 1 /\ compileExit = <<0>>)
    /\ pc = "Passed" => (error = NoError /\ (is_cross \/ execExit = <<0>>))
    /\ pc = "Failed" => error # NoError

C9_Step ==
    \/ pc' = pc
    \/ pc = "Unconstructed" /\ pc' \in {"Init", "ConstructFailed"}
    \/ C9_Rank[pc'] = C9_Rank[pc] + 1 /\ (pc' = "Passed" => pc \in {"Skipped", "Executed"})
    \/ pc' = "Failed" /\ pc \in {"Init", "SourceWritten", "Compiling", "Compiled", "Executing", "Executed"}
    \/ pc = "SourceWritten" /\ pc' = "Compiling"
    \/ pc = "Compiled" /\ pc' = "Executing"

C9_Running ==
    pc \in {"SourceWritten", "Compiling", "Compiled", "Skipped", "Executing", "Executed"}

\* C9: a run goes through Init, SourceWritten, Compiled, then Skipped or
\* Executed, then Passed or Failed, in that order, leaving it early only to
\* Failed; the source is written before the compile child is started, the
\* binary is executed only after the compile child exited zero, each child is
\* started at most once, and a run whose children exit ends Passed or Failed.
C9_RunOrder ==
    /\ []C9_Inv
    /\ [][C9_Step]_vars
    /\ (C9_Running ~> Ended)

C9_Witness == pc = "Passed" /\ ~is_cross /\ execCalls = 1 /\ compileCalls = 1

\* C10: SDK discovery is invoked exactly once on Darwin, at construction, and
\* never otherwise; a nonzero exit of the tool fails construction with the
\* licence error, a missing tool with the (different) not-installed error;
\* a failed construction produces no backend; off Darwin the tool is never
\* invoked and construction does not fail.
C10_SdkDiscovery ==
    /\ pc = "Unconstructed" => xcrunCalls = 0
    /\ pc # "Unconstructed" =>
          /\ xcrunCalls = (IF is_darwin THEN 1 ELSE 0)
          /\ ~is_darwin => (pc # "ConstructFailed" /\ xcrunOutcome = "none" /\ error \notin {LicenseError, NotInstalledError})
          /\ xcrunOutcome = "CalledProcessError" => (pc = "ConstructFailed" /\ error = LicenseError)
          /\ xcrunOutcome = "FileNotFoundError" => (pc = "ConstructFailed" /\ error = NotInstalledError)
          /\ xcrunOutcome = "output" => (pc # "ConstructFailed" /\ sdk_path # "unset")
    /\ pc = "ConstructFailed" =>
          /\ sdk_path = "unset"
          /\ sourceFile = "none"
          /\ compileCalls = 0
          /\ execCalls = 0
    /\ LicenseError.msg # NotInstalledError.msg

C10_Witness == pc = "ConstructFailed" /\ error = NotInstalledError /\ xcrunCalls = 1

====
